---- MODULE Spec2Model ----
(***************************************************************************)
(* Model of class Logger (src/src/utilities/logger.h): four maps from an   *)
(* event name to a number (tic, timer, timeStep, memory), three output     *)
(* file streams (file, stepFile, legendFile) and the terminal (std::cout). *)
(*                                                                         *)
(* A std::string is a finite sequence of character codes (A = 1, B = 2,    *)
(* ...), ordered as std::less<std::string> orders it.  A double is an      *)
(* integer number of clock ticks (or of bytes).  A std::map is a function  *)
(* whose DOMAIN is the set of keys it holds; it is iterated in ascending   *)
(* key order.  A stream is the sequence of the lines written to it, each   *)
(* line a record (or tuple) of its fields.                                 *)
(*                                                                         *)
(* get_time() reads the wall clock (gettimeofday), which may be set back   *)
(* between two calls: a reading is any value of 1..MaxClock, and the       *)
(* history variable monotone tells whether the readings never decreased.   *)
(* The public field printNow is read by no method and is left out.         *)
(***************************************************************************)
EXTENDS Integers, Sequences, FiniteSets, TLC

(* ------------------------------ bounds --------------------------------- *)
\* number of public calls made on one Logger
MaxOps == 3
\* get_time() returns a reading in 1..MaxClock
MaxClock == 2
\* allocMemory / freeMemory are called with 1..MaxBytes bytes
MaxBytes == 1
\* writeTimeStep is called with an iteration number in 1..MaxStep
MaxStep == 1

\* the event names the caller uses: "B" and "AB" ("AB" < "B" although longer)
Events == {<<2>>, <<1, 2>>}
Times == 1..MaxClock
Bytes == 1..MaxBytes
Steps == 1..MaxStep

\* the label "TOTAL" of the last row printed by printAllTime
TOTAL == <<20, 15, 20, 1, 12>>
\* the empty string
NoEvent == <<>>

(* --------------------------- std::map<string,double> -------------------- *)
\* std::less<std::string>: lexicographic comparison of two strings
RECURSIVE StrLess(_, _)
StrLess(a, b) ==
  IF b = <<>> THEN FALSE
  ELSE IF a = <<>> THEN TRUE
  ELSE IF Head(a) < Head(b) THEN TRUE
  ELSE IF Head(b) < Head(a) THEN FALSE
  ELSE StrLess(Tail(a), Tail(b))

\* the keys of a map in the order begin() .. end() visits them
RECURSIVE KeyOrder(_)
KeyOrder(S) ==
  IF S = {} THEN <<>>
  ELSE LET k == CHOOSE x \in S : \A y \in S \ {x} : StrLess(x, y)
       IN  <<k>> \o KeyOrder(S \ {k})

Iterate(m) == KeyOrder(DOMAIN m)

\* the value of m[k]: a missing key reads as the value-initialised double 0.0
Subscript(m, k) == IF k \in DOMAIN m THEN m[k] ELSE 0

\* the map after the reference m[k]: a missing key is inserted with value 0.0
Inserted(m, k) == [x \in DOMAIN m \cup {k} |-> IF x \in DOMAIN m THEN m[x] ELSE 0]

\* the map after m[k] = v
Assigned(m, k, v) == [x \in DOMAIN m \cup {k} |-> IF x = k THEN v ELSE m[x]]

\* variant: erase(k) leaves the map as it was
Erased_Kept(m, k) == m

\* the map after m.erase(k)
Erased(m, k) == [x \in DOMAIN m \ {k} |-> m[x]]

\* the map after "for (E = m.begin(); E != m.end(); ++E) E->second = 0;"
Zeroed(m) == [x \in DOMAIN m |-> 0]

EmptyMap == [x \in {} |-> 0]

(* ------------------------------- state ---------------------------------- *)
VARIABLES
  tic,         \* Event tic: starting time of events
  timer,       \* Event timer: total time spent of events
  timeStep,    \* Event timeStep: time spent of events for one step
  memory,      \* Event memory: memory allocated for events
  file,        \* lines written to <folder>/time
  stepFile,    \* lines written to <folder>/profiling
  legendFile,  \* lines written to <folder>/profiling_legend
  isOpen,      \* per stream: is the std::ofstream open
  console,     \* lines written to std::cout
  coutFixed,   \* std::cout carries std::fixed << std::setprecision(4)
  alive,       \* the Logger has not been destroyed
  nops,        \* number of public calls made so far
  lastTime,    \* history: the previous reading of get_time() (0: none yet)
  monotone,    \* history: no reading of get_time() was below the one before it
  lastStart,   \* history: event -> reading taken by its latest startTimer
  erasedEver,  \* history: events eraseTimer was called for
  erasedNow,   \* history: events erased and not referenced in timer since
  allocSum,    \* history: event -> sum of the bytes given to allocMemory
  freeSum,     \* history: event -> sum of the bytes given to freeMemory
  legendCalls, \* history: number of explicit writeLegend() calls
  timePrinted, \* history: printTime was called
  last         \* history: the latest call [op, event, arg]

maps == <<tic, timer, timeStep, memory>>
sinks == <<file, stepFile, legendFile, isOpen>>
term == <<console, coutFixed>>
clock == <<lastTime, monotone>>
hist == <<lastStart, erasedEver, erasedNow, allocSum, freeSum, legendCalls, timePrinted>>
vars == <<maps, sinks, term, clock, hist, alive, nops, last>>

(* ------------------------------ streams --------------------------------- *)
\* "<event> : <value>" on std::cout
PairLine(event, value) ==
  [kind |-> "pair", key |-> event, value |-> value,
   fmt |-> IF coutFixed THEN "fixed4" ELSE "general"]

\* a row of printAllTime: setw(24) key, setw(13) fixed setprecision(4) value
RowLine(kind, key, value) ==
  [kind |-> kind, key |-> key, value |-> value, fmt |-> "fixed4"]

BlankLine == [kind |-> "blank", key |-> NoEvent, value |-> 0, fmt |-> "none"]
RuleLine == [kind |-> "rule", key |-> NoEvent, value |-> 0, fmt |-> "none"]

\* a write to a std::ofstream that is not open fails and writes nothing
Written(stream, name, lines) == IF isOpen[name] THEN stream \o lines ELSE stream

(* --------------------------- construction ------------------------------- *)
\* Logger(): no stream is opened.
DefaultConstructed ==
  isOpen = [file |-> FALSE, stepFile |-> FALSE, legendFile |-> FALSE]

\* Logger(folder): the three streams are opened on files of the same folder;
\* the result of open() is not checked, and with a folder that is missing or
\* not writable the three streams stay closed.
FolderConstructed ==
  \E ok \in BOOLEAN : isOpen = [file |-> ok, stepFile |-> ok, legendFile |-> ok]

Init ==
  /\ tic = EmptyMap /\ timer = EmptyMap /\ timeStep = EmptyMap /\ memory = EmptyMap
  /\ file = <<>> /\ stepFile = <<>> /\ legendFile = <<>>
  /\ (DefaultConstructed \/ FolderConstructed)
  /\ console = <<>> /\ coutFixed = FALSE
  /\ alive = TRUE /\ nops = 0
  /\ lastTime = 0 /\ monotone = TRUE
  /\ lastStart = EmptyMap /\ erasedEver = {} /\ erasedNow = {}
  /\ allocSum = EmptyMap /\ freeSum = EmptyMap /\ legendCalls = 0
  /\ timePrinted = FALSE
  /\ last = [op |-> "Logger", event |-> NoEvent, arg |-> 0]

(* ------------------------------ helpers --------------------------------- *)
\* a public call on a live Logger, recorded in the history
Call(op, event, arg) ==
  /\ alive
  /\ nops < MaxOps
  /\ nops' = nops + 1
  /\ alive' = alive
  /\ last' = [op |-> op, event |-> event, arg |-> arg]

\* get_time() returned t
GetTime(t) ==
  /\ lastTime' = t
  /\ monotone' = (monotone /\ lastTime <= t)

\* variant: the starting time is not subtracted
Elapsed_NoStart(toc, event) == toc

\* the time added by stopTimer: toc - tic[event]
Elapsed(toc, event) == toc - Subscript(tic, event)

\* the lines writeLegend() sends to legendFile
LegendLines == [i \in 1..Len(Iterate(timer)) |-> Iterate(timer)[i]]

\* the lines writeTime() sends to file
TimeLines ==
  [i \in 1..Len(Iterate(timer)) |->
     [key |-> Iterate(timer)[i], value |-> timer[Iterate(timer)[i]]]]

\* variant: timeStep is iterated from its last key to its first
StepLine_Reversed(n) ==
  <<n>> \o [i \in 1..Len(Iterate(timeStep)) |->
            timeStep[Iterate(timeStep)[Len(Iterate(timeStep)) + 1 - i]]]

\* the line writeTimeStep(n) sends to stepFile: n, then one field per entry
StepLine(n) ==
  <<n>> \o [i \in 1..Len(Iterate(timeStep)) |-> timeStep[Iterate(timeStep)[i]]]

\* totalTime of printAllTime: the sum of E->second over timer
RECURSIVE SumOver(_, _)
SumOver(m, keys) ==
  IF keys = <<>> THEN 0 ELSE m[Head(keys)] + SumOver(m, Tail(keys))

TotalTime == SumOver(timer, Iterate(timer))

\* the lines printAllTime() sends to std::cout
AllTimeLines ==
  <<BlankLine>>
  \o [i \in 1..Len(Iterate(timer)) |->
        RowLine("row", Iterate(timer)[i], timer[Iterate(timer)[i]])]
  \o <<RuleLine, RowLine("total", TOTAL, TotalTime)>>

(* ------------------------------ operations ------------------------------ *)
\* variant: startTimer also creates the entry of event in timer
startTimer_Creates(event, t) ==
  /\ Call("startTimer", event, t)
  /\ GetTime(t)
  /\ tic' = Assigned(tic, event, t)
  /\ timer' = Inserted(timer, event)
  /\ lastStart' = Assigned(lastStart, event, t)
  /\ UNCHANGED <<timeStep, memory, sinks, term>>
  /\ UNCHANGED <<erasedEver, erasedNow, allocSum, freeSum, legendCalls, timePrinted>>

startTimer(event, t) ==
  /\ Call("startTimer", event, t)
  /\ GetTime(t)
  /\ tic' = Assigned(tic, event, t)
  /\ lastStart' = Assigned(lastStart, event, t)
  /\ UNCHANGED <<timer, timeStep, memory, sinks, term>>
  /\ UNCHANGED <<erasedEver, erasedNow, allocSum, freeSum, legendCalls, timePrinted>>

\* variant: the elapsed time is assigned to the two entries, not added
stopTimer_Assign(event, print, toc) ==
  /\ Call("stopTimer", event, toc)
  /\ GetTime(toc)
  /\ tic' = Inserted(tic, event)
  /\ timeStep' = Assigned(timeStep, event, Elapsed(toc, event))
  /\ timer' = Assigned(timer, event, Elapsed(toc, event))
  /\ console' = IF print THEN Append(console, PairLine(event, timer'[event]))
                ELSE console
  /\ erasedNow' = erasedNow \ {event}
  /\ UNCHANGED <<memory, sinks, coutFixed>>
  /\ UNCHANGED <<lastStart, erasedEver, allocSum, freeSum, legendCalls, timePrinted>>

stopTimer(event, print, toc) ==
  /\ Call("stopTimer", event, toc)
  /\ GetTime(toc)
  /\ tic' = Inserted(tic, event)
  /\ timeStep' = Assigned(timeStep, event, Subscript(timeStep, event) + Elapsed(toc, event))
  /\ timer' = Assigned(timer, event, Subscript(timer, event) + Elapsed(toc, event))
  /\ console' = IF print THEN Append(console, PairLine(event, timer'[event]))
                ELSE console
  /\ erasedNow' = erasedNow \ {event}
  /\ UNCHANGED <<memory, sinks, coutFixed>>
  /\ UNCHANGED <<lastStart, erasedEver, allocSum, freeSum, legendCalls, timePrinted>>

\* variant: the event is erased from the four maps
eraseTimer_AllMaps(event) ==
  /\ Call("eraseTimer", event, 0)
  /\ timer' = Erased(timer, event)
  /\ tic' = Erased(tic, event)
  /\ timeStep' = Erased(timeStep, event)
  /\ memory' = Erased(memory, event)
  /\ erasedEver' = erasedEver \cup {event}
  /\ erasedNow' = erasedNow \cup {event}
  /\ UNCHANGED <<sinks, term, clock>>
  /\ UNCHANGED <<lastStart, allocSum, freeSum, legendCalls, timePrinted>>

eraseTimer(event) ==
  /\ Call("eraseTimer", event, 0)
  /\ timer' = Erased(timer, event)
  /\ erasedEver' = erasedEver \cup {event}
  /\ erasedNow' = erasedNow \cup {event}
  /\ UNCHANGED <<tic, timeStep, memory, sinks, term, clock>>
  /\ UNCHANGED <<lastStart, allocSum, freeSum, legendCalls, timePrinted>>

\* variant: the loop runs over timeStep
resetTimer_WrongMap ==
  /\ Call("resetTimer", NoEvent, 0)
  /\ timeStep' = Zeroed(timeStep)
  /\ UNCHANGED <<tic, timer, memory, sinks, term, clock, hist>>

resetTimer ==
  /\ Call("resetTimer", NoEvent, 0)
  /\ timer' = Zeroed(timer)
  /\ UNCHANGED <<tic, timeStep, memory, sinks, term, clock, hist>>

\* variant: timeStep.clear()
resetTimeStep_Clear ==
  /\ Call("resetTimeStep", NoEvent, 0)
  /\ timeStep' = EmptyMap
  /\ UNCHANGED <<tic, timer, memory, sinks, term, clock, hist>>

resetTimeStep ==
  /\ Call("resetTimeStep", NoEvent, 0)
  /\ timeStep' = Zeroed(timeStep)
  /\ UNCHANGED <<tic, timer, memory, sinks, term, clock, hist>>

allocMemory(event, bytes) ==
  /\ Call("allocMemory", event, bytes)
  /\ memory' = Assigned(memory, event, Subscript(memory, event) + bytes)
  /\ allocSum' = Assigned(allocSum, event, Subscript(allocSum, event) + bytes)
  /\ UNCHANGED <<tic, timer, timeStep, sinks, term, clock>>
  /\ UNCHANGED <<lastStart, erasedEver, erasedNow, freeSum, legendCalls, timePrinted>>

\* variant: the entry is not let below zero
freeMemory_Clamped(event, bytes) ==
  /\ Call("freeMemory", event, bytes)
  /\ memory' = Assigned(memory, event,
                        IF Subscript(memory, event) < bytes THEN 0
                        ELSE Subscript(memory, event) - bytes)
  /\ freeSum' = Assigned(freeSum, event, Subscript(freeSum, event) + bytes)
  /\ UNCHANGED <<tic, timer, timeStep, sinks, term, clock>>
  /\ UNCHANGED <<lastStart, erasedEver, erasedNow, allocSum, legendCalls, timePrinted>>

freeMemory(event, bytes) ==
  /\ Call("freeMemory", event, bytes)
  /\ memory' = Assigned(memory, event, Subscript(memory, event) - bytes)
  /\ freeSum' = Assigned(freeSum, event, Subscript(freeSum, event) + bytes)
  /\ UNCHANGED <<tic, timer, timeStep, sinks, term, clock>>
  /\ UNCHANGED <<lastStart, erasedEver, erasedNow, allocSum, legendCalls, timePrinted>>

printTime(event) ==
  /\ Call("printTime", event, 0)
  /\ timer' = Inserted(timer, event)
  /\ console' = Append(console, PairLine(event, Subscript(timer, event)))
  /\ erasedNow' = erasedNow \ {event}
  /\ timePrinted' = TRUE
  /\ UNCHANGED <<tic, timeStep, memory, sinks, coutFixed, clock>>
  /\ UNCHANGED <<lastStart, erasedEver, allocSum, freeSum, legendCalls>>

printMemory(event) ==
  /\ Call("printMemory", event, 0)
  /\ memory' = Inserted(memory, event)
  /\ console' = Append(console, PairLine(event, Subscript(memory, event)))
  /\ UNCHANGED <<tic, timer, timeStep, sinks, coutFixed, clock, hist>>

printAllTime ==
  /\ Call("printAllTime", NoEvent, 0)
  /\ console' = console \o AllTimeLines
  /\ coutFixed' = TRUE
  /\ UNCHANGED <<maps, sinks, clock, hist>>

writeLegend ==
  /\ Call("writeLegend", NoEvent, 0)
  /\ legendFile' = Written(legendFile, "legendFile", LegendLines)
  /\ legendCalls' = legendCalls + 1
  /\ UNCHANGED <<maps, file, stepFile, isOpen, term, clock>>
  /\ UNCHANGED <<lastStart, erasedEver, erasedNow, allocSum, freeSum, timePrinted>>

writeTime ==
  /\ Call("writeTime", NoEvent, 0)
  /\ file' = Written(file, "file", TimeLines)
  /\ UNCHANGED <<maps, stepFile, legendFile, isOpen, term, clock, hist>>

writeTimeStep(n) ==
  /\ Call("writeTimeStep", NoEvent, n)
  /\ stepFile' = Written(stepFile, "stepFile", <<StepLine(n)>>)
  /\ UNCHANGED <<maps, file, legendFile, isOpen, term, clock, hist>>

\* variant: the destructor only closes the streams
Destroy_NoLegend ==
  /\ alive
  /\ alive' = FALSE
  /\ last' = [op |-> "~Logger", event |-> NoEvent, arg |-> 0]
  /\ isOpen' = [isOpen EXCEPT !["file"] = FALSE, !["stepFile"] = FALSE]
  /\ UNCHANGED <<maps, file, stepFile, legendFile, term, clock, hist, nops>>

\* ~Logger(): writeLegend(); file.close(); stepFile.close();
Destroy ==
  /\ alive
  /\ alive' = FALSE
  /\ last' = [op |-> "~Logger", event |-> NoEvent, arg |-> 0]
  /\ legendFile' = Written(legendFile, "legendFile", LegendLines)
  /\ isOpen' = [isOpen EXCEPT !["file"] = FALSE, !["stepFile"] = FALSE]
  /\ UNCHANGED <<maps, file, stepFile, term, clock, hist, nops>>

Next ==
  \/ \E e \in Events, t \in Times : startTimer(e, t)
  \/ \E e \in Events, p \in BOOLEAN, t \in Times : stopTimer(e, p, t)
  \/ \E e \in Events : eraseTimer(e)
  \/ resetTimer
  \/ resetTimeStep
  \/ \E e \in Events, b \in Bytes : allocMemory(e, b)
  \/ \E e \in Events, b \in Bytes : freeMemory(e, b)
  \/ \E e \in Events : printTime(e)
  \/ \E e \in Events : printMemory(e)
  \/ printAllTime
  \/ writeLegend
  \/ writeTime
  \/ \E n \in Steps : writeTimeStep(n)
  \/ Destroy

Spec == Init /\ [][Next]_vars

(* ------------------------------- claims --------------------------------- *)
\* the reading taken by the latest startTimer(e), 0 when there was none
StartOf(e) == IF e \in DOMAIN lastStart THEN lastStart[e] ELSE 0

\* the lines a step appended to a stream
NewLines(old, new) == SubSeq(new, Len(old) + 1, Len(new))

\* the position of key k among the keys S in ascending order
Rank(k, S) == 1 + Cardinality({x \in S : StrLess(x, k)})

\* C1: a stopTimer(e) that reads the clock at toc adds toc - s to both
\* timeStep[e] and timer[e], where s is the reading of the latest
\* startTimer(e) and 0 when startTimer(e) was never called; for an event never
\* started and without an entry in timer, timer[e] = toc afterwards.
C1_StopAddsElapsed ==
  [][ last'.op = "stopTimer" =>
        LET e == last'.event
            toc == last'.arg
            d == toc - StartOf(e)
        IN  /\ e \in DOMAIN timeStep'
            /\ timeStep'[e] = Subscript(timeStep, e) + d
            /\ e \in DOMAIN timer'
            /\ timer'[e] = Subscript(timer, e) + d
            /\ (e \notin DOMAIN lastStart /\ e \notin DOMAIN timer => timer'[e] = toc)
    ]_vars

\* C1 witness: the first call on the Logger was a stopTimer of an event never
\* started, and timer holds the clock reading for it.
C1_Witness ==
  /\ last.op = "stopTimer"
  /\ nops = 1
  /\ last.event \notin DOMAIN lastStart
  /\ timer[last.event] = last.arg
  /\ timeStep[last.event] = last.arg
  /\ last.arg > 0

\* the event names a writeTime() or printAllTime() step listed in its output
KeysListed ==
  IF last'.op = "writeTime"
  THEN {NewLines(file, file')[i].key : i \in 1..Len(NewLines(file, file'))}
  ELSE IF last'.op = "printAllTime"
  THEN {NewLines(console, console')[i].key :
          i \in {j \in 1..Len(NewLines(console, console')) :
                   NewLines(console, console')[j].kind = "row"}}
  ELSE {}

\* an event eraseTimer was called for keeps its entries of memory and timeStep,
\* and the eraseTimer call itself leaves the two maps as they were
ErasedKeepsOthers ==
  /\ \A e \in erasedEver' :
       /\ e \in DOMAIN memory => e \in DOMAIN memory'
       /\ e \in DOMAIN timeStep => e \in DOMAIN timeStep'
  /\ last'.op = "eraseTimer" => memory' = memory /\ timeStep' = timeStep

\* C2 as stated: after eraseTimer(e), no later printAllTime() or writeTime()
\* lists e, whatever was called in between, and memory[e], timeStep[e] stay.
C2_Original ==
  [][ KeysListed \cap erasedEver' = {} /\ ErasedKeepsOthers ]_vars

\* C2 amended: after eraseTimer(e), no later printAllTime() or writeTime()
\* lists e unless stopTimer(e) or printTime(e) was called in between (either
\* creates the entry of e in timer again); memory[e] and timeStep[e] stay.
C2_ErasedStaysOut ==
  [][ KeysListed \cap erasedNow' = {} /\ ErasedKeepsOthers ]_vars

\* C2 witness: printAllTime() after eraseTimer(e), e timed earlier and not
\* referenced since: the table has no row for e, and timeStep still holds e.
C2_Witness ==
  /\ last.op = "printAllTime"
  /\ erasedNow \cap DOMAIN timeStep # {}
  /\ Len(console) >= 3
  /\ \A i \in 1..Len(console) :
       console[i].kind = "row" => console[i].key \notin erasedNow

\* C3: eraseTimer(e) removes the entry of e from timer and nothing else: tic,
\* timeStep and memory are unchanged, the other entries of timer are
\* unchanged, and erasing a key timer does not hold changes nothing.
C3_EraseFrame ==
  [][ last'.op = "eraseTimer" =>
        /\ tic' = tic
        /\ timeStep' = timeStep
        /\ memory' = memory
        /\ DOMAIN timer' = DOMAIN timer \ {last'.event}
        /\ \A k \in DOMAIN timer' : timer'[k] = timer[k]
        /\ (last'.event \notin DOMAIN timer => timer' = timer)
    ]_vars

\* C3 witness: an event held by tic, timer and timeStep was erased while timer
\* held another event too.
C3_Witness ==
  /\ last.op = "eraseTimer"
  /\ last.event \notin DOMAIN timer
  /\ last.event \in DOMAIN tic
  /\ last.event \in DOMAIN timeStep
  /\ DOMAIN timer # {}

\* C4: once the Logger is destroyed with no explicit writeLegend() call, the
\* legend file (the stream being open) holds one line per key of timer, each
\* key once, in ascending key order, and nothing else.
C4_LegendAtDestruction ==
  (~alive /\ legendCalls = 0 /\ isOpen["legendFile"]) =>
     /\ Len(legendFile) = Cardinality(DOMAIN timer)
     /\ {legendFile[i] : i \in 1..Len(legendFile)} = DOMAIN timer
     /\ \A i, j \in 1..Len(legendFile) :
          i < j => StrLess(legendFile[i], legendFile[j])

\* C4 witness: a Logger destroyed with two events in timer and no explicit
\* writeLegend(): the legend file reads "AB", "B".
C4_Witness ==
  /\ ~alive
  /\ legendCalls = 0
  /\ DOMAIN timer = Events
  /\ legendFile = << <<1, 2>>, <<2>> >>

\* C5: writeTimeStep(n) appends one line to the per-step file: n, then one
\* value per key of timeStep in ascending key order; the four maps are
\* unchanged.
C5_WriteTimeStepLine ==
  [][ last'.op = "writeTimeStep" =>
        /\ tic' = tic /\ timer' = timer /\ timeStep' = timeStep /\ memory' = memory
        /\ isOpen["stepFile"] =>
             /\ Len(stepFile') = Len(stepFile) + 1
             /\ SubSeq(stepFile', 1, Len(stepFile)) = stepFile
             /\ LET line == stepFile'[Len(stepFile')]
                IN  /\ Len(line) = 1 + Cardinality(DOMAIN timeStep)
                    /\ line[1] = last'.arg
                    /\ \A k \in DOMAIN timeStep :
                         line[1 + Rank(k, DOMAIN timeStep)] = timeStep[k]
    ]_vars

\* C5 witness: with timeStep = {"AB": 2, "B": 1} ("B" timed first) the line
\* written by writeTimeStep(1) has the fields 1, 2, 1.
C5_Witness ==
  /\ last.op = "writeTimeStep"
  /\ DOMAIN timeStep = Events
  /\ timeStep[<<1, 2>>] = 2
  /\ timeStep[<<2>>] = 1
  /\ stepFile = << <<1, 2, 1>> >>

\* C6: resetTimer() sets every value of timer to zero, keeps its keys and
\* leaves tic, timeStep and memory unchanged; the printAllTime() that follows
\* it prints one row per key of timer, each with value zero, and a TOTAL of
\* zero.
C6_ResetTimer ==
  [][ /\ last'.op = "resetTimer" =>
           /\ DOMAIN timer' = DOMAIN timer
           /\ \A k \in DOMAIN timer' : timer'[k] = 0
           /\ tic' = tic /\ timeStep' = timeStep /\ memory' = memory
      /\ (last.op = "resetTimer" /\ last'.op = "printAllTime") =>
           LET out == NewLines(console, console')
               rows == {i \in 1..Len(out) : out[i].kind = "row"}
           IN  /\ Cardinality(rows) = Cardinality(DOMAIN timer)
               /\ {out[i].key : i \in rows} = DOMAIN timer
               /\ \A i \in rows : out[i].value = 0
               /\ out[Len(out)].kind = "total"
               /\ out[Len(out)].key = TOTAL
               /\ out[Len(out)].value = 0
    ]_vars

\* C6 witness: the three calls stopTimer(e), resetTimer(), printAllTime(): the
\* time of e was not zero until the reset (timeStep still holds it), timer
\* holds zero for e, and so does the row printed for e.
C6_Witness ==
  /\ last.op = "printAllTime"
  /\ nops = 3
  /\ \E e \in DOMAIN timer :
       /\ timer[e] = 0
       /\ e \in DOMAIN timeStep
       /\ timeStep[e] > 0
       /\ \E i \in 1..Len(console) :
            console[i].kind = "row" /\ console[i].key = e /\ console[i].value = 0

\* C7: memory[e] is the sum of the bytes given to allocMemory(e, .) minus the
\* sum given to freeMemory(e, .), zero for an event with neither, negative when
\* more was freed than allocated; a call for e leaves the entries of the other
\* events and the three timing maps unchanged.
C7_MemoryIsAllocMinusFree ==
  [][ /\ \A e \in Events :
           Subscript(memory', e) = Subscript(allocSum', e) - Subscript(freeSum', e)
      /\ last'.op \in {"allocMemory", "freeMemory"} =>
           /\ tic' = tic /\ timer' = timer /\ timeStep' = timeStep
           /\ DOMAIN memory' = DOMAIN memory \cup {last'.event}
           /\ \A k \in DOMAIN memory \ {last'.event} : memory'[k] = memory[k]
    ]_vars

\* C7 witness: one allocMemory(e, 1) and two freeMemory(e, 1) leave
\* memory[e] = -1.
C7_Witness ==
  /\ last.op = "freeMemory"
  /\ last.event \in DOMAIN allocSum
  /\ allocSum[last.event] = 1
  /\ freeSum[last.event] = 2
  /\ memory[last.event] = -1

\* an entry appears in a map only on a call that references that key in that
\* map, and every such call leaves the entry there
CreatedOnReference ==
  /\ DOMAIN tic' \ DOMAIN tic \subseteq
       (IF last'.op \in {"startTimer", "stopTimer"} THEN {last'.event} ELSE {})
  /\ DOMAIN timer' \ DOMAIN timer \subseteq
       (IF last'.op \in {"stopTimer", "printTime"} THEN {last'.event} ELSE {})
  /\ DOMAIN timeStep' \ DOMAIN timeStep \subseteq
       (IF last'.op = "stopTimer" THEN {last'.event} ELSE {})
  /\ DOMAIN memory' \ DOMAIN memory \subseteq
       (IF last'.op \in {"allocMemory", "freeMemory", "printMemory"}
        THEN {last'.event} ELSE {})
  /\ last'.op \in {"startTimer", "stopTimer"} => last'.event \in DOMAIN tic'
  /\ last'.op \in {"stopTimer", "printTime"} => last'.event \in DOMAIN timer'
  /\ last'.op = "stopTimer" => last'.event \in DOMAIN timeStep'
  /\ last'.op \in {"allocMemory", "freeMemory", "printMemory"} =>
       last'.event \in DOMAIN memory'

\* C8 as stated: an entry of any of the four maps is created on the first call
\* that references its key there and stays in that map in every later state.
C8_Original ==
  [][ /\ CreatedOnReference
      /\ DOMAIN tic \subseteq DOMAIN tic'
      /\ DOMAIN timer \subseteq DOMAIN timer'
      /\ DOMAIN timeStep \subseteq DOMAIN timeStep'
      /\ DOMAIN memory \subseteq DOMAIN memory'
    ]_vars

\* C8 amended: an entry of any of the four maps is created on the first call
\* that references its key there and stays in that map in every later state,
\* except that eraseTimer(e) removes the entry of e from timer.
C8_EntriesPersist ==
  [][ /\ CreatedOnReference
      /\ DOMAIN tic \subseteq DOMAIN tic'
      /\ DOMAIN timer \ DOMAIN timer' \subseteq
           (IF last'.op = "eraseTimer" THEN {last'.event} ELSE {})
      /\ DOMAIN timeStep \subseteq DOMAIN timeStep'
      /\ DOMAIN memory \subseteq DOMAIN memory'
    ]_vars

\* C8 witness: an event was timed, erased, and printTime created its entry of
\* timer anew (value zero) while its entry of timeStep stayed all along.
C8_Witness ==
  /\ last.op = "printTime"
  /\ last.event \in erasedEver
  /\ last.event \in DOMAIN timer
  /\ timer[last.event] = 0
  /\ last.event \in DOMAIN timeStep
  /\ timeStep[last.event] > 0

\* C9: while the clock never ran backwards, a call other than resetTimer and
\* eraseTimer leaves every entry of timer in place with a value not below the
\* one before and not set back to zero, and likewise a call other than
\* resetTimeStep for timeStep; resetTimeStep leaves timer unchanged and
\* resetTimer leaves timeStep unchanged.
C9_Cumulative ==
  [][ /\ (monotone' /\ last'.op \notin {"resetTimer", "eraseTimer"}) =>
           \A e \in DOMAIN timer :
             /\ e \in DOMAIN timer'
             /\ timer[e] <= timer'[e]
             /\ (timer[e] # 0 => timer'[e] # 0)
      /\ (monotone' /\ last'.op # "resetTimeStep") =>
           \A e \in DOMAIN timeStep :
             /\ e \in DOMAIN timeStep'
             /\ timeStep[e] <= timeStep'[e]
             /\ (timeStep[e] # 0 => timeStep'[e] # 0)
      /\ last'.op = "resetTimeStep" => timer' = timer
      /\ last'.op = "resetTimer" => timeStep' = timeStep
    ]_vars

\* C9 witness: stopTimer(e) at 1, resetTimeStep(), stopTimer(e) at 2 under a
\* clock that never ran backwards: timer[e] = 3 and timeStep[e] = 2.
C9_Witness ==
  /\ monotone
  /\ last.op = "stopTimer"
  /\ nops = 3
  /\ timer[last.event] = 3
  /\ timeStep[last.event] = 2

\* what writeLegend(), writeTime() and writeTimeStep(n) write in the current
\* state agrees: as many names as columns, and the i-th name is the event of
\* the i-th column
LegendMatchesColumns ==
  LET legend == LegendLines
      times == TimeLines
      line == StepLine(0)
  IN  /\ Len(line) = 1 + Len(legend)
      /\ Len(times) = Len(legend)
      /\ \A i \in 1..Len(legend) :
           /\ times[i].key = legend[i]
           /\ legend[i] \in DOMAIN timeStep
           /\ line[i + 1] = timeStep[legend[i]]

\* C10: as long as neither eraseTimer nor printTime was called, timer and
\* timeStep hold the same keys, all of them keys of tic, so that the names
\* writeLegend() and writeTime() would write are, one for one and in order,
\* the events of the columns writeTimeStep(n) would write; and only eraseTimer
\* and printTime make the two key sets differ.
C10_SameKeys ==
  [][ /\ (erasedEver' = {} /\ ~timePrinted') =>
           /\ DOMAIN timer' = DOMAIN timeStep'
           /\ DOMAIN timer' \subseteq DOMAIN tic'
      /\ (erasedEver = {} /\ ~timePrinted
            /\ last'.op \in {"writeLegend", "writeTime", "writeTimeStep", "~Logger"}) =>
           LegendMatchesColumns
      /\ (DOMAIN timer = DOMAIN timeStep /\ last'.op \notin {"eraseTimer", "printTime"}) =>
           DOMAIN timer' = DOMAIN timeStep'
    ]_vars

\* C10 witness: two events timed, no eraseTimer and no printTime:
\* writeTimeStep wrote two columns and timer holds the same two keys.
C10_Witness ==
  /\ last.op = "writeTimeStep"
  /\ erasedEver = {}
  /\ ~timePrinted
  /\ DOMAIN timer = Events
  /\ DOMAIN timeStep = Events
  /\ Len(stepFile) = 1
  /\ Len(stepFile[1]) = 3

====
